---- MODULE Spec2Model ----
(***************************************************************************)
(* Model of the bayesian-consensus-engine: the SQLite reliability store    *)
(* (reliability.py), the decay helpers (decay.py) and the consensus        *)
(* computation (core.py).                                                  *)
(*                                                                         *)
(* Numbers.  Python floats are modelled as exact rationals <<n, d>> in     *)
(* lowest terms with d > 0, so 0.50 is <<1, 2>> and 0.10 is <<1, 10>>.     *)
(* Floating-point rounding is not modelled.                                *)
(*                                                                         *)
(* Strings.  Identifiers are sequences of code points, compared            *)
(* lexicographically as Python and SQLite (BINARY collation) compare them. *)
(*                                                                         *)
(* Time.  The wall clock is a number of days.  It advances in whole        *)
(* half-lives, where 2 ** (-t / h) is an exact rational.                   *)
(***************************************************************************)
EXTENDS Integers, Sequences, FiniteSets, TLC

VARIABLES
    rows,       \* the sources table: a set of rows
    now,        \* the wall clock, in days
    updates,    \* per (source, market): update_reliability calls so far
    call,       \* the last store call: operation, arguments, time
    ret,        \* the ReliabilityRecord the last get/update returned
    listed,     \* the list the last list_sources returned
    before,     \* the sources table as it was when the last call began
    signals,    \* compute_consensus: the signal list
    source_reliability,  \* compute_consensus: the reliability map
    result,     \* compute_consensus: the returned dict
    pure_call,  \* a call of a pure function: its name and arguments
    pure_ret,   \* the value that call returned
    conns       \* per connection: the update_reliability call in progress

vars == <<rows, now, updates, call, ret, listed, before,
          signals, source_reliability, result, pure_call, pure_ret,
          conns>>

storeVars == <<rows, now, updates, call, ret, listed, before>>
consensusVars == <<signals, source_reliability, result>>
pureVars == <<pure_call, pure_ret>>

---------------------------------------------------------------------------
(* Bounds of the model *)

\* total number of update_reliability calls in a behaviour of Spec
MaxUpdates == 3

\* total number of update_reliability calls in a behaviour of SpecDeep
MaxDeepUpdates == 6

\* how many half-lives the wall clock may advance
MaxHalfLives == 1

---------------------------------------------------------------------------
(* Exact rational arithmetic standing for Python float arithmetic *)

Abs(n) == IF n < 0 THEN -n ELSE n

RECURSIVE GCD(_, _)
GCD(a, b) == IF b = 0 THEN a ELSE GCD(b, a % b)

RNorm(n, d) ==
    LET g == GCD(Abs(n), d)
    IN  IF n = 0 THEN <<0, 1>> ELSE <<n \div g, d \div g>>

LCM(a, b) == (a \div GCD(a, b)) * b

\* numerators of a and b over their common denominator
RNumOver(a, l) == a[1] * (l \div a[2])

RAdd(a, b) ==
    LET l == LCM(a[2], b[2])
    IN  RNorm(RNumOver(a, l) + RNumOver(b, l), l)

RNeg(a) == <<-a[1], a[2]>>

RSub(a, b) == RAdd(a, RNeg(b))

RMul(a, b) ==
    LET g1 == GCD(Abs(a[1]), b[2])
        g2 == GCD(Abs(b[1]), a[2])
    IN  IF a[1] = 0 \/ b[1] = 0 THEN <<0, 1>>
        ELSE RNorm((a[1] \div g1) * (b[1] \div g2),
                   (a[2] \div g2) * (b[2] \div g1))

\* a / b for b > 0
RDiv(a, b) == RMul(a, <<b[2], b[1]>>)

RLe(a, b) ==
    LET l == LCM(a[2], b[2])
    IN  RNumOver(a, l) <= RNumOver(b, l)

RLt(a, b) == RLe(a, b) /\ a # b

RMin(a, b) == IF RLe(a, b) THEN a ELSE b

RMax(a, b) == IF RLe(a, b) THEN b ELSE a

RZero == <<0, 1>>
ROne == <<1, 1>>

RECURSIVE Pow2(_)
Pow2(k) == IF k <= 0 THEN 1 ELSE 2 * Pow2(k - 1)

---------------------------------------------------------------------------
(* Strings as sequences of code points *)

RECURSIVE StrLt(_, _)
StrLt(s, t) ==
    IF t = <<>> THEN FALSE
    ELSE IF s = <<>> THEN TRUE
    ELSE IF Head(s) # Head(t) THEN Head(s) < Head(t)
    ELSE StrLt(Tail(s), Tail(t))

StrLe(s, t) == s = t \/ StrLt(s, t)

\* "a", "ab", "b"
SrcA == <<97>>
SrcAB == <<97, 98>>
SrcB == <<98>>

\* "m1", "m2"
Mkt1 == <<109, 49>>
Mkt2 == <<109, 50>>

StoreSources == {SrcA, SrcB}
StoreMarkets == {Mkt1, Mkt2}

\* the keys of SpecDeep, which follows fewer keys through more updates
DeepSources == {SrcA}
DeepMarkets == {Mkt1, Mkt2}

---------------------------------------------------------------------------
(* config.py *)

DEFAULT_RELIABILITY == <<1, 2>>
\* the cold-start confidence of the docstring and table default in
\* reliability.py, in place of the configured one
DEFAULT_CONFIDENCE_docstring == <<1, 2>>

DEFAULT_CONFIDENCE == <<1, 4>>
MAX_UPDATE_STEP == <<1, 10>>
DECAY_HALF_LIFE_DAYS == 30
DECAY_MINIMUM == <<1, 10>>

\* reliability.py
BASE_LEARNING_RATE == <<3, 20>>

\* the literal 0.10 of the confidence growth
CONFIDENCE_GROWTH == <<1, 10>>

---------------------------------------------------------------------------
(* Timestamps: the text stored in updated_at *)

\* the empty string
EmptyTimestamp == [kind |-> "empty", tz |-> "none", day |-> 0]

\* datetime.now(timezone.utc).isoformat() at day t
isoformat(t) == [kind |-> "iso", tz |-> "utc", day |-> t]

\* Python truthiness of a timestamp argument
Truthy(ts) == ts.kind \notin {"none", "empty"}

\* Python None
None == <<-1>>

---------------------------------------------------------------------------
(* decay.py *)

\* compute_decay_factor with the minus sign of the exponent lost
compute_decay_factor_growing(elapsed_days, half_life_days) ==
    IF elapsed_days <= 0 THEN ROne
    ELSE <<Pow2(elapsed_days \div half_life_days), 1>>

\* 2 ** (-elapsed_days / half_life_days), for elapsed_days a whole number
\* of half-lives
compute_decay_factor(elapsed_days, half_life_days) ==
    IF elapsed_days <= 0 THEN ROne
    ELSE <<1, Pow2(elapsed_days \div half_life_days)>>

\* apply_reliability_decay without the final clamp to [min_reliability, 1]
apply_reliability_decay_unclamped(current_reliability, elapsed_days, half_life_days, min_reliability) ==
    IF elapsed_days <= 0 THEN current_reliability
    ELSE RAdd(min_reliability,
              RMul(RSub(current_reliability, min_reliability),
                   compute_decay_factor(elapsed_days, half_life_days)))

apply_reliability_decay(current_reliability, elapsed_days, half_life_days, min_reliability) ==
    IF elapsed_days <= 0 THEN current_reliability
    ELSE LET decay_factor == compute_decay_factor(elapsed_days, half_life_days)
             decayed == RAdd(min_reliability,
                             RMul(RSub(current_reliability, min_reliability),
                                  decay_factor))
         IN  RMax(min_reliability, RMin(ROne, decayed))

\* elapsed days between the timestamp text and the clock nw
days_since_update(last_updated_at, nw) ==
    IF ~Truthy(last_updated_at) THEN 0
    ELSE IF last_updated_at.kind = "bad" THEN 0
    ELSE IF nw - last_updated_at.day < 0 THEN 0
    ELSE nw - last_updated_at.day

\* outcomes of a call: a returned value or a raised exception
Returned(v) == [status |-> "returned", value |-> v]
Raised(e) == [status |-> "raised", error |-> e]

\* the now argument left out: decay.py reads datetime.now(timezone.utc)
NowDefault == [kind |-> "none", tz |-> "none", day |-> 0]

\* the now that days_since_update subtracts from, clock the day of the call
now_used(now_arg, clock) ==
    IF now_arg.kind = "none" THEN [kind |-> "datetime", tz |-> "utc", day |-> clock]
    ELSE now_arg

\* now - last_updated of an aware last_updated and a naive now is a TypeError
subtraction_raises(last_updated_at, now_arg, clock) ==
    /\ Truthy(last_updated_at)
    /\ last_updated_at.kind # "bad"
    /\ now_used(now_arg, clock).tz = "none"

\* days_since_update(last_updated_at, now) called on day clock
days_since_update_outcome(last_updated_at, now_arg, clock) ==
    IF subtraction_raises(last_updated_at, now_arg, clock) THEN Raised("TypeError")
    ELSE Returned(days_since_update(last_updated_at, now_used(now_arg, clock).day))

\* decay_reliability_if_needed: the pair (decayed, was_decayed)
decay_reliability_if_needed(current_reliability, last_updated_at, now_arg, clock, half_life_days, min_reliability) ==
    LET elapsed == days_since_update_outcome(last_updated_at, now_arg, clock)
    IN  IF elapsed.status = "raised" THEN elapsed
        ELSE IF elapsed.value <= 0 THEN Returned(<<current_reliability, FALSE>>)
        ELSE LET decayed == apply_reliability_decay(current_reliability,
                                                    elapsed.value,
                                                    half_life_days,
                                                    min_reliability)
             IN  Returned(<<decayed, decayed # current_reliability>>)

---------------------------------------------------------------------------
(* reliability.py: SQLiteReliabilityStore *)

ReliabilityRecord(s, m, r, c, u) ==
    [source_id |-> s, market_id |-> m, reliability |-> r,
     confidence |-> c, updated_at |-> u]

Keys == StoreSources \X StoreMarkets

\* SELECT ... WHERE source_id = ? AND market_id = ?
SelectKey(rws, s, m) == {r \in rws : r.source_id = s /\ r.market_id = m}

\* get_reliability with apply_decay ignored: the stored values as they are
get_reliability_undecayed(rws, nw, s, m, apply_decay) ==
    LET found == SelectKey(rws, s, m)
    IN  IF found # {} THEN CHOOSE r \in found : TRUE
        ELSE ReliabilityRecord(s, m, DEFAULT_RELIABILITY, DEFAULT_CONFIDENCE,
                               EmptyTimestamp)

get_reliability(rws, nw, s, m, apply_decay) ==
    LET found == SelectKey(rws, s, m)
    IN  IF found # {}
        THEN LET row == CHOOSE r \in found : TRUE
                 elapsed_days == days_since_update(row.updated_at, nw)
                 reliability ==
                     IF apply_decay /\ Truthy(row.updated_at) /\ elapsed_days > 0
                     THEN apply_reliability_decay(row.reliability, elapsed_days,
                                                  DECAY_HALF_LIFE_DAYS,
                                                  DECAY_MINIMUM)
                     ELSE row.reliability
             IN  ReliabilityRecord(row.source_id, row.market_id, reliability,
                                   row.confidence, row.updated_at)
        ELSE ReliabilityRecord(s, m, DEFAULT_RELIABILITY, DEFAULT_CONFIDENCE,
                               EmptyTimestamp)

\* update_reliability reading its baseline with apply_decay=True
current_record_decayed(rws, nw, s, m) == get_reliability(rws, nw, s, m, TRUE)

\* the record update_reliability starts from
current_record(rws, nw, s, m) == get_reliability(rws, nw, s, m, FALSE)

\* capped_delta with the direction of the outcome dropped
capped_delta_unsigned(outcome_correct) ==
    RMax(RNeg(MAX_UPDATE_STEP), RMin(MAX_UPDATE_STEP, BASE_LEARNING_RATE))

\* capped_delta without the cap: the raw learning-rate step
capped_delta_uncapped(outcome_correct) ==
    RMul(BASE_LEARNING_RATE, IF outcome_correct THEN <<1, 1>> ELSE <<-1, 1>>)

capped_delta(outcome_correct) ==
    LET direction == IF outcome_correct THEN <<1, 1>> ELSE <<-1, 1>>
        raw_delta == RMul(BASE_LEARNING_RATE, direction)
    IN  RMax(RNeg(MAX_UPDATE_STEP), RMin(MAX_UPDATE_STEP, raw_delta))

\* new_reliability without the clamp to [0, 1]
new_reliability_unclamped(current, outcome_correct) ==
    RAdd(current.reliability,
         IF outcome_correct THEN MAX_UPDATE_STEP ELSE RNeg(MAX_UPDATE_STEP))

new_reliability(current, outcome_correct) ==
    RMax(RZero, RMin(ROne, RAdd(current.reliability,
                                capped_delta(outcome_correct))))

\* new_confidence with the current confidence dropped from the sum
new_confidence_gap_only(current) ==
    RMin(ROne, RMul(RSub(ROne, current.confidence), CONFIDENCE_GROWTH))

new_confidence(current) ==
    RMin(ROne, RAdd(current.confidence,
                    RMul(RSub(ROne, current.confidence), CONFIDENCE_GROWTH)))

\* upsert with the conflict target narrowed to source_id
upsert_by_source(rws, rec) ==
    {r \in rws : r.source_id # rec.source_id} \cup {rec}

\* INSERT ... ON CONFLICT(source_id, market_id) DO UPDATE SET ...
upsert(rws, rec) ==
    (rws \ SelectKey(rws, rec.source_id, rec.market_id)) \cup {rec}

updated_record(rws, nw, s, m, outcome_correct) ==
    LET current == current_record(rws, nw, s, m)
    IN  ReliabilityRecord(s, m, new_reliability(current, outcome_correct),
                          new_confidence(current), isoformat(nw))

RowLt(a, b) ==
    \/ StrLt(a.source_id, b.source_id)
    \/ a.source_id = b.source_id /\ StrLt(a.market_id, b.market_id)

\* ORDER BY source_id, market_id
RECURSIVE OrderBySourceMarket(_)
OrderBySourceMarket(rws) ==
    IF rws = {} THEN <<>>
    ELSE LET first == CHOOSE r \in rws : \A q \in rws : ~RowLt(q, r)
         IN  <<first>> \o OrderBySourceMarket(rws \ {first})

\* ORDER BY source_id
RECURSIVE OrderBySource(_)
OrderBySource(rws) ==
    IF rws = {} THEN <<>>
    ELSE LET first == CHOOSE r \in rws :
                          \A q \in rws : ~StrLt(q.source_id, r.source_id)
         IN  <<first>> \o OrderBySource(rws \ {first})

\* list_sources with every query ordered by market_id before source_id
list_sources_market_first(rws, market_id) ==
    LET key(r) == ReliabilityRecord(r.market_id, r.source_id, r.reliability,
                                    r.confidence, r.updated_at)
        chosen == IF market_id # None THEN {r \in rws : r.market_id = market_id}
                  ELSE rws
        ordered == OrderBySourceMarket({key(r) : r \in chosen})
    IN  [i \in 1..Len(ordered) |-> key(ordered[i])]

list_sources(rws, market_id) ==
    IF market_id # None
    THEN OrderBySource({r \in rws : r.market_id = market_id})
    ELSE OrderBySourceMarket(rws)

---------------------------------------------------------------------------
(* The store as a state machine *)

Call(op, s, m, apply_decay, outcome_correct) ==
    [op |-> op, source_id |-> s, market_id |-> m, apply_decay |-> apply_decay,
     outcome_correct |-> outcome_correct, at |-> now]

\* the value of ret while no get or update has just returned
NoRecord == ReliabilityRecord(None, None, RZero, RZero, EmptyTimestamp)

RECURSIVE SumOver(_, _)
SumOver(f, S) ==
    IF S = {} THEN 0
    ELSE LET k == CHOOSE x \in S : TRUE IN f[k] + SumOver(f, S \ {k})

TotalUpdates == SumOver(updates, Keys)

StoreInit ==
    /\ rows = {}
    /\ now = 0
    /\ updates = [k \in Keys |-> 0]
    /\ call = [op |-> "init", source_id |-> None, market_id |-> None,
               apply_decay |-> FALSE, outcome_correct |-> FALSE, at |-> 0]
    /\ ret = NoRecord
    /\ listed = <<>>
    /\ before = {}

\* get_reliability inserting the cold-start record when no row exists
GetReliability_persists(s, m, apply_decay) ==
    /\ ret' = get_reliability(rows, now, s, m, apply_decay)
    /\ rows' = IF SelectKey(rows, s, m) = {}
               THEN rows \cup {get_reliability(rows, now, s, m, apply_decay)}
               ELSE rows
    /\ call' = Call("get", s, m, apply_decay, FALSE)
    /\ before' = rows
    /\ listed' = <<>>
    /\ UNCHANGED <<now, updates>>

\* get_reliability writing the decayed reliability back to the row
GetReliability_writeback(s, m, apply_decay) ==
    /\ ret' = get_reliability(rows, now, s, m, apply_decay)
    /\ rows' = IF SelectKey(rows, s, m) = {}
               THEN rows
               ELSE (rows \ SelectKey(rows, s, m))
                        \cup {get_reliability(rows, now, s, m, apply_decay)}
    /\ call' = Call("get", s, m, apply_decay, FALSE)
    /\ before' = rows
    /\ listed' = <<>>
    /\ UNCHANGED <<now, updates>>

GetReliability(s, m, apply_decay) ==
    /\ ret' = get_reliability(rows, now, s, m, apply_decay)
    /\ call' = Call("get", s, m, apply_decay, FALSE)
    /\ before' = rows
    /\ listed' = <<>>
    /\ UNCHANGED <<rows, now, updates>>

UpdateReliability(s, m, outcome_correct) ==
    /\ LET rec == updated_record(rows, now, s, m, outcome_correct)
       IN  /\ rows' = upsert(rows, rec)
           /\ ret' = rec
    /\ updates' = [updates EXCEPT ![<<s, m>>] = @ + 1]
    /\ call' = Call("update", s, m, FALSE, outcome_correct)
    /\ before' = rows
    /\ listed' = <<>>
    /\ UNCHANGED now

ListSources(market_id) ==
    /\ listed' = list_sources(rows, market_id)
    /\ call' = Call("list", None, market_id, FALSE, FALSE)
    /\ before' = rows
    /\ ret' = NoRecord
    /\ UNCHANGED <<rows, now, updates>>

\* the wall clock advances by one half-life
Tick ==
    /\ now < MaxHalfLives * DECAY_HALF_LIFE_DAYS
    /\ now' = now + DECAY_HALF_LIFE_DAYS
    /\ UNCHANGED <<rows, updates, call, ret, listed, before>>

ConsensusIdle ==
    /\ signals = <<>>
    /\ source_reliability = [is_none |-> TRUE, dict |-> <<>>]
    /\ result = [schemaVersion |-> "none"]

\* no function of decay.py has been called
PureIdle ==
    /\ pure_call = [fn |-> "none"]
    /\ pure_ret = None

\* the connections of the store, and the key they update
Connections == {1, 2}
ConnSource == SrcA
ConnMarket == Mkt1

\* no update_reliability call in progress on any connection
IdleConn == [pc |-> "idle", current |-> NoRecord, outcome_correct |-> FALSE,
             stale |-> FALSE, outcomes |-> <<>>]

ConnsIdle == conns = [c \in Connections |-> IdleConn]

Init == StoreInit /\ ConsensusIdle /\ PureIdle /\ ConnsIdle

Next ==
    \/ \E s \in StoreSources, m \in StoreMarkets, d \in BOOLEAN :
           GetReliability(s, m, d) /\ UNCHANGED <<consensusVars, pureVars, conns>>
    \/ \E s \in StoreSources, m \in StoreMarkets, c \in BOOLEAN :
           /\ TotalUpdates < MaxUpdates
           /\ UpdateReliability(s, m, c)
           /\ UNCHANGED <<consensusVars, pureVars, conns>>
    \/ \E m \in StoreMarkets \cup {None} :
           ListSources(m) /\ UNCHANGED <<consensusVars, pureVars, conns>>
    \/ Tick /\ UNCHANGED <<consensusVars, pureVars, conns>>

Spec == Init /\ [][Next]_vars

NextDeep ==
    \/ \E s \in DeepSources, m \in DeepMarkets, d \in BOOLEAN :
           GetReliability(s, m, d) /\ UNCHANGED <<consensusVars, pureVars, conns>>
    \/ \E s \in DeepSources, m \in DeepMarkets, c \in BOOLEAN :
           /\ TotalUpdates < MaxDeepUpdates
           /\ UpdateReliability(s, m, c)
           /\ UNCHANGED <<consensusVars, pureVars, conns>>
    \/ \E m \in DeepMarkets \cup {None} :
           ListSources(m) /\ UNCHANGED <<consensusVars, pureVars, conns>>
    \/ Tick /\ UNCHANGED <<consensusVars, pureVars, conns>>

SpecDeep == Init /\ [][NextDeep]_vars

---------------------------------------------------------------------------
(* core.py: compute_consensus *)

SCHEMA_VERSION == "1.0.0"

\* the empty dict
EmptyDict == [k \in {} |-> RZero]

\* d.get(key, default)
dict_get(d, key, default) == IF key \in DOMAIN d THEN d[key] ELSE default

\* sorted(S) for a set of strings
RECURSIVE sorted(_)
sorted(S) ==
    IF S = {} THEN <<>>
    ELSE LET least == CHOOSE x \in S : \A y \in S : StrLe(x, y)
         IN  <<least>> \o sorted(S \ {least})

\* the distinct source ids in order of first appearance, unsorted
RECURSIVE source_ids_first_seen(_)
source_ids_first_seen(sigs) ==
    IF sigs = <<>> THEN <<>>
    ELSE LET front == source_ids_first_seen(SubSeq(sigs, 1, Len(sigs) - 1))
             last == sigs[Len(sigs)].sourceId
         IN  IF \E i \in DOMAIN front : front[i] = last
             THEN front ELSE Append(front, last)

\* sorted({s["sourceId"] for s in signals})
source_ids(sigs) == sorted({sigs[i].sourceId : i \in DOMAIN sigs})

\* [s for s in signals if s["sourceId"] == sid]
source_signals(sigs, sid) == SelectSeq(sigs, LAMBDA s : s.sourceId = sid)

\* sum(s["probability"] for s in source_signals)
RECURSIVE sum_probability(_)
sum_probability(sigs) ==
    IF sigs = <<>> THEN RZero
    ELSE RAdd(sum_probability(Tail(sigs)), Head(sigs).probability)

\* source_entry with the probabilities of a source summed, not averaged
source_entry_unaveraged(sigs, sr, sid) ==
    LET rel_data == dict_get(sr, sid, EmptyDict)
        reliability == dict_get(rel_data, "reliability", DEFAULT_RELIABILITY)
        confidence == dict_get(rel_data, "confidence", DEFAULT_CONFIDENCE)
        mine == source_signals(sigs, sid)
    IN  [sourceId |-> sid, probability |-> sum_probability(mine),
         reliability |-> reliability, confidence |-> confidence,
         weight |-> reliability]

\* source_entry with the weight multiplied by the number of signals
source_entry_count_weighted(sigs, sr, sid) ==
    LET rel_data == dict_get(sr, sid, EmptyDict)
        reliability == dict_get(rel_data, "reliability", DEFAULT_RELIABILITY)
        confidence == dict_get(rel_data, "confidence", DEFAULT_CONFIDENCE)
        mine == source_signals(sigs, sid)
        avg_prob == RDiv(sum_probability(mine), <<Len(mine), 1>>)
    IN  [sourceId |-> sid, probability |-> avg_prob, reliability |-> reliability,
         confidence |-> confidence,
         weight |-> RMul(reliability, <<Len(mine), 1>>)]

\* source_entry with a falsy (zero) reliability replaced by the default,
\* as `rel_data.get("reliability") or DEFAULT_RELIABILITY` would
source_entry_falsy_default(sigs, sr, sid) ==
    LET rel_data == dict_get(sr, sid, EmptyDict)
        given == dict_get(rel_data, "reliability", DEFAULT_RELIABILITY)
        reliability == IF given = RZero THEN DEFAULT_RELIABILITY ELSE given
        confidence == dict_get(rel_data, "confidence", DEFAULT_CONFIDENCE)
        mine == source_signals(sigs, sid)
        avg_prob == RDiv(sum_probability(mine), <<Len(mine), 1>>)
    IN  [sourceId |-> sid, probability |-> avg_prob, reliability |-> reliability,
         confidence |-> confidence, weight |-> reliability]

\* one element of source_data
source_entry(sigs, sr, sid) ==
    LET rel_data == dict_get(sr, sid, EmptyDict)
        reliability == dict_get(rel_data, "reliability", DEFAULT_RELIABILITY)
        confidence == dict_get(rel_data, "confidence", DEFAULT_CONFIDENCE)
        mine == source_signals(sigs, sid)
        avg_prob == RDiv(sum_probability(mine), <<Len(mine), 1>>)
    IN  [sourceId |-> sid, probability |-> avg_prob, reliability |-> reliability,
         confidence |-> confidence, weight |-> reliability]

source_data(sigs, sr) ==
    LET ids == source_ids(sigs)
    IN  [i \in DOMAIN ids |-> source_entry(sigs, sr, ids[i])]

\* sum(f(sd) for sd in source_data), f one of the three sums of the code
RECURSIVE sum_over(_, _)
sum_over(sd, what) ==
    IF sd = <<>> THEN RZero
    ELSE LET h == Head(sd)
             term == CASE what = "weight" -> h.weight
                       [] what = "probability" -> RMul(h.probability, h.weight)
                       [] what = "confidence" -> RMul(h.confidence, h.weight)
         IN  RAdd(term, sum_over(Tail(sd), what))

\* the normalizedWeight without the division by total_weight
normalized_weight_undivided(weight, total_weight) == weight

\* sd["weight"] / total_weight if total_weight > 0 else 0.0
normalized_weight(weight, total_weight) ==
    IF RLt(RZero, total_weight) THEN RDiv(weight, total_weight) ELSE RZero

\* the result returned for an empty signal list
no_signals_result ==
    [schemaVersion |-> SCHEMA_VERSION,
     consensus |-> None,
     confidence |-> RZero,
     sourceWeights |-> <<>>,
     normalization |-> [totalWeight |-> RZero, sourceCount |-> 0],
     diagnostics |-> [status |-> "no_signals", sources |-> 0]]

\* the result computed from a signal list
computed_result(sigs, source_rel) ==
    LET sr == IF source_rel.is_none THEN EmptyDict ELSE source_rel.dict
        ids == source_ids(sigs)
        sd == source_data(sigs, sr)
        total_weight == sum_over(sd, "weight")
        consensus == IF total_weight = RZero THEN None
                     ELSE RDiv(sum_over(sd, "probability"), total_weight)
        final_confidence == IF total_weight = RZero THEN RZero
                            ELSE RDiv(sum_over(sd, "confidence"), total_weight)
        source_weights ==
            [i \in DOMAIN sd |->
                [sourceId |-> sd[i].sourceId,
                 weight |-> sd[i].weight,
                 normalizedWeight |->
                     normalized_weight(sd[i].weight, total_weight)]]
    IN  [schemaVersion |-> SCHEMA_VERSION,
         consensus |-> consensus,
         confidence |-> final_confidence,
         sourceWeights |-> source_weights,
         normalization |-> [totalWeight |-> total_weight,
                            sourceCount |-> Len(ids)],
         diagnostics |->
             [status |-> "computed",
              sources |-> Len(sigs),
              uniqueSources |-> Len(ids),
              coldStartSources |->
                  SelectSeq([i \in DOMAIN sd |-> sd[i].sourceId],
                            LAMBDA sid : sid \notin DOMAIN sr)]]

\* compute_consensus without the early return for an empty signal list
compute_consensus_unguarded(sigs, source_rel) == computed_result(sigs, source_rel)

compute_consensus(sigs, source_rel) ==
    IF sigs = <<>> THEN no_signals_result ELSE computed_result(sigs, source_rel)

---------------------------------------------------------------------------
(* compute_consensus applied to bounded inputs *)

\* longest signal list
MaxSignals == 3

ConsensusSources == {SrcA, SrcAB, SrcB}

Probabilities == {<<3, 5>>, <<4, 5>>}

Signal == [sourceId : ConsensusSources, probability : Probabilities]

SignalLists == UNION {[1..n -> Signal] : n \in 0..MaxSignals}

\* the records a caller supplies for a source
SuppliedRecords ==
    { [reliability |-> RZero, confidence |-> ROne],
      [reliability |-> <<1, 2>>, confidence |-> <<1, 4>>],
      [reliability |-> ROne] }

\* the source_reliability argument: None, or a dict keyed by source id
NoneArg == [is_none |-> TRUE, dict |-> EmptyDict]

DictArg(d) == [is_none |-> FALSE, dict |-> d]

ReliabilityMaps ==
    {NoneArg} \cup
    {DictArg(d) : d \in UNION {[S -> SuppliedRecords] : S \in SUBSET ConsensusSources}}

\* the value of result before compute_consensus has returned
NotComputed == [schemaVersion |-> "none"]

StoreIdle == StoreInit

InitConsensus ==
    /\ StoreIdle
    /\ PureIdle
    /\ ConnsIdle
    /\ signals \in SignalLists
    /\ source_reliability \in ReliabilityMaps
    /\ result = NotComputed

ComputeConsensus ==
    /\ result = NotComputed
    /\ result' = compute_consensus(signals, source_reliability)
    /\ UNCHANGED <<signals, source_reliability>>

NextConsensus == ComputeConsensus /\ UNCHANGED <<storeVars, pureVars, conns>>

SpecConsensus == InitConsensus /\ [][NextConsensus]_vars

---------------------------------------------------------------------------
(* decay.py: apply_reliability_decay applied to bounded inputs *)

\* most half-lives of elapsed time passed to apply_reliability_decay
MaxDecayHalfLives == 2

\* current_reliability arguments: below, at and above the floors, and 1.5
DecayReliabilities ==
    {<<0, 1>>, <<1, 20>>, <<1, 10>>, <<1, 2>>, <<4, 5>>, <<1, 1>>, <<3, 2>>}

\* min_reliability arguments
DecayFloors == {<<0, 1>>, <<1, 10>>, <<1, 2>>}

\* half_life_days arguments
DecayHalfLives == {15, DECAY_HALF_LIFE_DAYS}

\* the calls apply_reliability_decay(x, k * h, h, f), k = -1 a negative time
DecayCalls ==
    {[fn |-> "apply_reliability_decay", current_reliability |-> x,
      elapsed_days |-> k * h, half_life_days |-> h, min_reliability |-> f] :
        x \in DecayReliabilities, k \in -1..MaxDecayHalfLives,
        h \in DecayHalfLives, f \in DecayFloors}

InitDecay ==
    /\ StoreIdle
    /\ ConsensusIdle
    /\ pure_call \in DecayCalls
    /\ pure_ret = None
    /\ ConnsIdle

ApplyReliabilityDecay ==
    /\ pure_call.fn = "apply_reliability_decay"
    /\ pure_ret = None
    /\ pure_ret' = apply_reliability_decay(pure_call.current_reliability,
                                           pure_call.elapsed_days,
                                           pure_call.half_life_days,
                                           pure_call.min_reliability)
    /\ UNCHANGED pure_call

NextDecay == ApplyReliabilityDecay /\ UNCHANGED <<storeVars, consensusVars, conns>>

SpecDecay == InitDecay /\ [][NextDecay]_vars

---------------------------------------------------------------------------
(* decay.py: days_since_update and decay_reliability_if_needed applied to
   bounded inputs *)

\* latest day of a timestamp or of now, in half-lives
MaxElapsedHalfLives == 1

ElapsedDays == {k * DECAY_HALF_LIFE_DAYS : k \in 0..MaxElapsedHalfLives}

\* last_updated_at arguments: None, "", "not-a-date", ISO text and datetime
\* objects, with and without a time zone
TimestampArgs ==
    {[kind |-> "none", tz |-> "none", day |-> 0], EmptyTimestamp,
     [kind |-> "bad", tz |-> "none", day |-> 0]}
    \cup {[kind |-> k, tz |-> z, day |-> d] :
            k \in {"iso", "datetime"}, z \in {"utc", "none"}, d \in ElapsedDays}

\* now arguments: left out, aware and naive datetime objects
NowArgs ==
    {NowDefault}
    \cup {[kind |-> "datetime", tz |-> z, day |-> d] :
            z \in {"utc", "none"}, d \in ElapsedDays}

ElapsedReliabilities == {<<1, 20>>, <<1, 10>>, <<4, 5>>}

ElapsedCalls ==
    {[fn |-> "days_since_update", last_updated_at |-> ts, now |-> n] :
        ts \in TimestampArgs, n \in NowArgs}
    \cup {[fn |-> "decay_reliability_if_needed", current_reliability |-> x,
           last_updated_at |-> ts, now |-> n] :
            x \in ElapsedReliabilities, ts \in TimestampArgs, n \in NowArgs}

Pending == [status |-> "pending"]

\* the store's clock stands for the wall clock of the call
InitElapsed ==
    /\ rows = {}
    /\ now \in ElapsedDays
    /\ updates = [k \in Keys |-> 0]
    /\ call = [op |-> "init", source_id |-> None, market_id |-> None,
               apply_decay |-> FALSE, outcome_correct |-> FALSE, at |-> 0]
    /\ ret = NoRecord
    /\ listed = <<>>
    /\ before = {}
    /\ ConsensusIdle
    /\ pure_call \in ElapsedCalls
    /\ pure_ret = Pending
    /\ ConnsIdle

DaysSinceUpdate ==
    /\ pure_call.fn = "days_since_update"
    /\ pure_ret.status = "pending"
    /\ pure_ret' = days_since_update_outcome(pure_call.last_updated_at,
                                             pure_call.now, now)
    /\ UNCHANGED pure_call

DecayReliabilityIfNeeded ==
    /\ pure_call.fn = "decay_reliability_if_needed"
    /\ pure_ret.status = "pending"
    /\ pure_ret' = decay_reliability_if_needed(pure_call.current_reliability,
                                               pure_call.last_updated_at,
                                               pure_call.now, now,
                                               DECAY_HALF_LIFE_DAYS,
                                               DECAY_MINIMUM)
    /\ UNCHANGED pure_call

NextElapsed ==
    \/ DaysSinceUpdate /\ UNCHANGED <<storeVars, consensusVars, conns>>
    \/ DecayReliabilityIfNeeded /\ UNCHANGED <<storeVars, consensusVars, conns>>

SpecElapsed == InitElapsed /\ [][NextElapsed]_vars

---------------------------------------------------------------------------
(* core.py: validate_input_payload *)

\* config.py validation limits
MAX_SOURCE_ID_LENGTH == 256
MAX_SIGNALS_PER_REQUEST == 1000

\* Python values: a type tag and a value; dicts are functions on their keys
\* names the value's field after its type
PyStr(s) == [type |-> "str", chars |-> s]
PyNum(r) == [type |-> "float", num |-> r]
PyDict(d) == [type |-> "dict", items |-> d]
PyList(l) == [type |-> "list", elems |-> l]

\* a str kept as a TLA+ string, as SCHEMA_VERSION is
PyText(s) == [type |-> "str", text |-> s]

\* float("nan"): every ordering comparison with it is False
NaN == <<0, 0>>
py_lt(a, b) == a # NaN /\ b # NaN /\ RLt(a, b)

\* str.strip(): leading and trailing white space removed
IsSpace(c) == c \in {9, 10, 11, 12, 13, 32}

strip(s) ==
    LET kept == {i \in 1..Len(s) : ~IsSpace(s[i])}
    IN  IF kept = {} THEN <<>>
        ELSE SubSeq(s, CHOOSE i \in kept : \A j \in kept : i <= j,
                       CHOOSE i \in kept : \A j \in kept : j <= i)

\* ValidationError(text): the f-string's template, the key and the index
\* formatted into it, -1 when the message has no index
ValidationError(text, key, idx) ==
    [type |-> "ValidationError", text |-> text, key |-> key, idx |-> idx]

\* _require raising when the key is absent
require_error(key) == ValidationError("{key} is required", key, -1)

\* the body of the loop for signals[idx]
validate_signal(idx, signal) ==
    IF signal.type # "dict"
    THEN Raised(ValidationError("signals[{idx}] must be an object", "", idx))
    ELSE IF "sourceId" \notin DOMAIN signal.items
    THEN Raised(require_error("sourceId"))
    ELSE IF signal.items["sourceId"].type # "str" \/ strip(signal.items["sourceId"].chars) = <<>>
    THEN Raised(ValidationError("signals[{idx}].sourceId must be a non-empty string",
                                "sourceId", idx))
    ELSE IF "probability" \notin DOMAIN signal.items
    THEN Raised(require_error("probability"))
    ELSE IF signal.items["probability"].type \notin {"int", "float", "bool"}
    THEN Raised(ValidationError("signals[{idx}].probability must be a number",
                                "probability", idx))
    ELSE IF \/ py_lt(signal.items["probability"].num, RZero)
            \/ py_lt(ROne, signal.items["probability"].num)
    THEN Raised(ValidationError("signals[{idx}].probability must be between 0 and 1",
                                "probability", idx))
    ELSE Returned(None)

\* for idx, signal in enumerate(signals): the first signal that raises
validate_signals(sigs) ==
    LET failing == {i \in 1..Len(sigs) :
                       validate_signal(i - 1, sigs[i]).status = "raised"}
    IN  IF failing = {} THEN Returned(None)
        ELSE LET first == CHOOSE i \in failing : \A j \in failing : i <= j
             IN  validate_signal(first - 1, sigs[first])

validate_input_payload(payload) ==
    IF "schemaVersion" \notin DOMAIN payload
    THEN Raised(require_error("schemaVersion"))
    ELSE IF payload["schemaVersion"] # PyText(SCHEMA_VERSION)
    THEN Raised(ValidationError("schemaVersion must be '{SCHEMA_VERSION}' (got '{schema_version}')",
                                "schemaVersion", -1))
    ELSE IF "marketId" \notin DOMAIN payload
    THEN Raised(require_error("marketId"))
    ELSE IF payload["marketId"].type # "str" \/ strip(payload["marketId"].chars) = <<>>
    THEN Raised(ValidationError("marketId must be a non-empty string", "marketId", -1))
    ELSE IF "signals" \notin DOMAIN payload
    THEN Raised(require_error("signals"))
    ELSE IF payload["signals"].type # "list"
    THEN Raised(ValidationError("signals must be an array", "signals", -1))
    ELSE validate_signals(payload["signals"].elems)

---------------------------------------------------------------------------
(* validate_input_payload applied to bounded payloads *)

\* longest list of freely chosen signals in a payload
MaxPayloadSignals == 2

\* a key left out of a dict
Absent == [type |-> "absent"]

\* the dict of the keys whose value is not Absent
MakeDict(d) == [k \in {k \in DOMAIN d : d[k].type # "absent"} |-> d[k]]

\* a string of n letters "a"
Letters(n) == [i \in 1..n |-> 97]

\* sourceId values: "a", " ", 5, a string one longer than the limit, absent
SourceIdValues ==
    {PyStr(SrcA), PyStr(<<32>>), PyNum(<<5, 1>>),
     PyStr(Letters(MAX_SOURCE_ID_LENGTH + 1)), Absent}

\* probability values: 0.5, 1.5, -0.5, NaN, "x", absent
ProbabilityValues ==
    {PyNum(<<1, 2>>), PyNum(<<3, 2>>), PyNum(<<-1, 2>>), PyNum(NaN),
     PyStr(<<120>>), Absent}

\* the elements of signals: dicts, and a number in place of a dict
SignalValues ==
    {PyDict(MakeDict([sourceId |-> s, probability |-> q])) :
        s \in SourceIdValues, q \in ProbabilityValues}
    \cup {PyNum(<<5, 1>>)}

ValidSignal == PyDict([sourceId |-> PyStr(SrcA), probability |-> PyNum(<<1, 2>>)])

\* signals values: short lists of any elements, lists of valid signals at
\* and one above the limit, a string in place of the list, absent
SignalsValues ==
    {PyList(l) : l \in UNION {[1..n -> SignalValues] : n \in 0..MaxPayloadSignals}}
    \cup {PyList([i \in 1..n |-> ValidSignal]) :
            n \in {MAX_SIGNALS_PER_REQUEST, MAX_SIGNALS_PER_REQUEST + 1}}
    \cup {PyStr(<<120>>), Absent}

SchemaVersionValues == {PyText(SCHEMA_VERSION), PyText("2.0.0"), Absent}

MarketIdValues == {PyStr(Mkt1), PyStr(<<32, 9>>), PyNum(<<7, 1>>), Absent}

\* payloads: any head with one valid signal, a valid head with any signals
Payloads ==
    {MakeDict([schemaVersion |-> sv, marketId |-> mk,
               signals |-> PyList(<<ValidSignal>>)]) :
        sv \in SchemaVersionValues, mk \in MarketIdValues}
    \cup {MakeDict([schemaVersion |-> PyText(SCHEMA_VERSION),
                    marketId |-> PyStr(Mkt1), signals |-> sg]) :
            sg \in SignalsValues}

InitValidate ==
    /\ StoreIdle
    /\ ConsensusIdle
    /\ pure_call \in {[fn |-> "validate_input_payload", payload |-> pl] :
                         pl \in Payloads}
    /\ pure_ret = Pending
    /\ ConnsIdle

ValidateInputPayload ==
    /\ pure_call.fn = "validate_input_payload"
    /\ pure_ret.status = "pending"
    /\ pure_ret' = validate_input_payload(pure_call.payload)
    /\ UNCHANGED pure_call

NextValidate == ValidateInputPayload /\ UNCHANGED <<storeVars, consensusVars, conns>>

SpecValidate == InitValidate /\ [][NextValidate]_vars

---------------------------------------------------------------------------
(* update_reliability on two connections to one database.  Each statement
   is one step: the SELECT of get_reliability, then the INSERT ... ON
   CONFLICT, with no transaction around the two (isolation_level=None). *)

\* update_reliability calls per connection
MaxConnUpdates == 2

\* current = self.get_reliability(source_id, market_id)
SelectCurrent(c, outcome_correct) ==
    /\ conns[c].pc = "idle"
    /\ Len(conns[c].outcomes) < MaxConnUpdates
    /\ conns' = [conns EXCEPT ![c] =
                    [@ EXCEPT !.pc = "selected",
                              !.current = current_record(rows, now, ConnSource,
                                                         ConnMarket),
                              !.outcome_correct = outcome_correct]]
    /\ UNCHANGED rows

\* the upsert of the values computed from current, and the return
UpsertComputed(c) ==
    /\ conns[c].pc = "selected"
    /\ LET current == conns[c].current
           rec == ReliabilityRecord(ConnSource, ConnMarket,
                                    new_reliability(current, conns[c].outcome_correct),
                                    new_confidence(current), isoformat(now))
       IN  rows' = upsert(rows, rec)
    /\ conns' = [conns EXCEPT ![c] =
                    [pc |-> "idle", current |-> NoRecord, outcome_correct |-> FALSE,
                     stale |-> @.stale \/ @.current # current_record(rows, now,
                                                                     ConnSource,
                                                                     ConnMarket),
                     outcomes |-> Append(@.outcomes, @.outcome_correct)]]

InitConcurrent == StoreIdle /\ ConsensusIdle /\ PureIdle /\ ConnsIdle

NextConcurrent ==
    \/ \E c \in Connections, o \in BOOLEAN :
           /\ SelectCurrent(c, o)
           /\ UNCHANGED <<now, updates, call, ret, listed, before,
                          consensusVars, pureVars>>
    \/ \E c \in Connections :
           /\ UpsertComputed(c)
           /\ UNCHANGED <<now, updates, call, ret, listed, before,
                          consensusVars, pureVars>>

SpecConcurrent == InitConcurrent /\ [][NextConcurrent]_vars

---------------------------------------------------------------------------
(* Vocabulary of the store properties *)

InUnit(x) == RLe(RZero, x) /\ RLe(x, ROne)

Clamp01(x) == IF RLe(x, RZero) THEN RZero ELSE IF RLe(ROne, x) THEN ROne ELSE x

\* the row of key (s, m) in table rws; only used where one exists
RowOf(rws, s, m) == CHOOSE r \in SelectKey(rws, s, m) : TRUE

\* the reliability / confidence an update of (s, m) starts from in rws
PreReliability(rws, s, m) ==
    IF SelectKey(rws, s, m) = {} THEN <<1, 2>> ELSE RowOf(rws, s, m).reliability

PreConfidence(rws, s, m) ==
    IF SelectKey(rws, s, m) = {} THEN <<1, 4>> ELSE RowOf(rws, s, m).confidence

\* the last call was a get / update of a key that had a row when it began
OnStoredKey(op) ==
    /\ call.op = op
    /\ SelectKey(before, call.source_id, call.market_id) # {}

\* days between the update of the row the last call addressed and the call
CallElapsed == call.at - RowOf(before, call.source_id, call.market_id).updated_at.day

Step(outcome_correct) == IF outcome_correct THEN <<1, 10>> ELSE <<-1, 10>>

---------------------------------------------------------------------------
C2_ReadsLeaveStore ==
    /\ call.op \in {"get", "list"} => rows = before
    /\ rows # before => call.op = "update"

\* a decayed read that returned less than the stored reliability
C2_Witness ==
    /\ OnStoredKey("get")
    /\ call.apply_decay
    /\ ret.reliability # RowOf(rows, call.source_id, call.market_id).reliability
    /\ rows = before

\* C3 as claimed: every stored and every returned reliability is in
\* [floor, 1] with floor = 0.10.
C3_Original ==
    /\ \A r \in rows : RLe(<<1, 10>>, r.reliability) /\ RLe(r.reliability, ROne)
    /\ call.op \in {"get", "update"}
          => RLe(<<1, 10>>, ret.reliability) /\ RLe(ret.reliability, ROne)

\* C3 amended: every stored and every returned reliability is in [0, 1],
\* and a read with apply_decay of a row updated a positive time ago returns
\* a reliability in [floor, 1] with floor = 0.10.
C3_ReliabilityRange ==
    /\ \A r \in rows : InUnit(r.reliability)
    /\ call.op \in {"get", "update"} => InUnit(ret.reliability)
    /\ (OnStoredKey("get") /\ call.apply_decay /\ CallElapsed > 0)
          => RLe(<<1, 10>>, ret.reliability) /\ RLe(ret.reliability, ROne)

\* a decayed read of a row stored below the floor, returned at the floor
C3_Witness ==
    /\ OnStoredKey("get")
    /\ call.apply_decay
    /\ CallElapsed > 0
    /\ RowOf(rows, call.source_id, call.market_id).reliability = RZero
    /\ ret.reliability = <<1, 10>>

\* C4: after any sequence of updates every stored reliability is in [0, 1].
C4_StoredInUnitInterval ==
    \A r \in rows : RLe(<<0, 1>>, r.reliability) /\ RLe(r.reliability, <<1, 1>>)

\* an update that had to be clamped: correct outcome on a reliability of 1
C4_Witness ==
    /\ OnStoredKey("update")
    /\ call.outcome_correct
    /\ PreReliability(before, call.source_id, call.market_id) = ROne
    /\ RowOf(rows, call.source_id, call.market_id).reliability = ROne

\* C5 as claimed: a correct outcome returns and stores a reliability
\* strictly greater than the pre-update one, an incorrect outcome a strictly
\* smaller one.
C5_Original ==
    call.op = "update" =>
        LET pre == PreReliability(before, call.source_id, call.market_id)
            post == RowOf(rows, call.source_id, call.market_id).reliability
        IN  /\ ret.reliability = post
            /\ IF call.outcome_correct THEN RLt(pre, post) ELSE RLt(post, pre)

\* C5 amended: a correct outcome returns and stores a reliability strictly
\* greater than the pre-update one unless that is already 1, where it stays
\* 1; an incorrect outcome a strictly smaller one unless that is already 0,
\* where it stays 0.
C5_UpdateDirection ==
    call.op = "update" =>
        LET pre == PreReliability(before, call.source_id, call.market_id)
            post == RowOf(rows, call.source_id, call.market_id).reliability
        IN  /\ ret.reliability = post
            /\ IF call.outcome_correct
               THEN IF pre = ROne THEN post = ROne ELSE RLt(pre, post)
               ELSE IF pre = RZero THEN post = RZero ELSE RLt(post, pre)

\* an incorrect outcome on a reliability of 0, which stays 0
C5_Witness ==
    /\ OnStoredKey("update")
    /\ ~call.outcome_correct
    /\ PreReliability(before, call.source_id, call.market_id) = RZero
    /\ ret.reliability = RZero

\* C6: an update stores (and returns) exactly clamp(r + d, 0, 1), r the
\* stored reliability or 0.50 without a row, d = +0.10 / -0.10; so one
\* update changes a reliability by at most 0.10.
C6_UpdateStoresClampedStep ==
    call.op = "update" =>
        LET pre == PreReliability(before, call.source_id, call.market_id)
            post == RowOf(rows, call.source_id, call.market_id).reliability
        IN  /\ post = Clamp01(RAdd(pre, Step(call.outcome_correct)))
            /\ ret.reliability = post
            /\ RLe(RSub(post, pre), <<1, 10>>)
            /\ RLe(RSub(pre, post), <<1, 10>>)

\* the first update of a key, from the cold-start 0.50 down to 0.40
C6_Witness ==
    /\ call.op = "update"
    /\ SelectKey(before, call.source_id, call.market_id) = {}
    /\ ~call.outcome_correct
    /\ RowOf(rows, call.source_id, call.market_id).reliability = <<2, 5>>

C8_UpdateUsesRawBaseline ==
    (OnStoredKey("update") /\ CallElapsed > 0) =>
        LET stored == RowOf(before, call.source_id, call.market_id).reliability
        IN  RowOf(rows, call.source_id, call.market_id).reliability
                = Clamp01(RAdd(stored, Step(call.outcome_correct)))

\* an update of a row whose decayed reliability differs from the stored one
C8_Witness ==
    /\ OnStoredKey("update")
    /\ CallElapsed > 0
    /\ get_reliability(before, call.at, call.source_id, call.market_id, TRUE).reliability
           # RowOf(before, call.source_id, call.market_id).reliability

\* C9: an update creates or replaces exactly the row of its key and leaves
\* the other rows unchanged; there is at most one row per key, a key has a
\* row exactly when it was updated at least once, rows never disappear, and
\* every row has a non-empty updated_at.
C9_OneRowPerUpdatedKey ==
    /\ call.op = "update" =>
           /\ rows \ SelectKey(rows, call.source_id, call.market_id)
                  = before \ SelectKey(before, call.source_id, call.market_id)
           /\ Cardinality(SelectKey(rows, call.source_id, call.market_id)) = 1
    /\ \A r \in rows : <<r.source_id, r.market_id>> \in Keys
    /\ \A k \in Keys :
           /\ Cardinality(SelectKey(rows, k[1], k[2])) <= 1
           /\ SelectKey(rows, k[1], k[2]) # {} <=> updates[k] > 0
    /\ \A r \in before : SelectKey(rows, r.source_id, r.market_id) # {}
    /\ \A r \in rows : r.updated_at # EmptyTimestamp /\ Truthy(r.updated_at)

\* an update replacing a row while another market of the same source has a
\* row, which stays as it was
C9_Witness ==
    /\ OnStoredKey("update")
    /\ rows # before
    /\ \E r \in rows : /\ r.source_id = call.source_id
                        /\ r.market_id # call.market_id
                        /\ r \in before

---------------------------------------------------------------------------
(* Vocabulary of the consensus properties *)

Computed == result # NotComputed

SignalSourceIds == {signals[i].sourceId : i \in DOMAIN signals}

\* C10: for a non-empty signal list in any order and any reliability map,
\* sourceWeights has exactly one entry per distinct sourceId, in ascending
\* sourceId order, and sourceCount and uniqueSources are the number of
\* distinct sourceIds; equal weights do not change the order.
C10_SourceWeightsSorted ==
    (Computed /\ signals # <<>>) =>
        LET sw == result.sourceWeights
        IN  /\ Len(sw) = Cardinality(SignalSourceIds)
            /\ {sw[i].sourceId : i \in DOMAIN sw} = SignalSourceIds
            /\ \A i \in DOMAIN sw : \A j \in DOMAIN sw :
                   i < j => StrLt(sw[i].sourceId, sw[j].sourceId)
            /\ result.normalization.sourceCount = Cardinality(SignalSourceIds)
            /\ result.diagnostics.uniqueSources = Cardinality(SignalSourceIds)

\* signals arriving as "b", "ab", "a" with the three weights equal: the
\* entries come out as "a", "ab", "b"
C10_Witness ==
    /\ Computed
    /\ Len(signals) = 3
    /\ signals[1].sourceId = SrcB
    /\ signals[2].sourceId = SrcAB
    /\ signals[3].sourceId = SrcA
    /\ \A i \in DOMAIN result.sourceWeights :
           result.sourceWeights[i].weight = <<1, 2>>
    /\ result.sourceWeights[1].sourceId = SrcA
    /\ result.sourceWeights[2].sourceId = SrcAB
    /\ result.sourceWeights[3].sourceId = SrcB

---------------------------------------------------------------------------
(* Reference values of the consensus properties, computed from the inputs *)

\* the signal positions of source sid
PositionsOf(sid) == {i \in DOMAIN signals : signals[i].sourceId = sid}

RECURSIVE SumAt(_, _)
SumAt(f, S) ==
    IF S = {} THEN RZero
    ELSE LET x == CHOOSE y \in S : TRUE IN RAdd(f[x], SumAt(f, S \ {x}))

\* the record supplied for sid, if any
Supplied(sid) ==
    ~source_reliability.is_none /\ sid \in DOMAIN source_reliability.dict

\* p_i: the arithmetic mean of the probabilities of source sid
RefMean(sid) ==
    RDiv(SumAt([i \in PositionsOf(sid) |-> signals[i].probability], PositionsOf(sid)),
         <<Cardinality(PositionsOf(sid)), 1>>)

\* w_i: the supplied reliability, 0.50 if none
RefWeight(sid) ==
    IF Supplied(sid) /\ "reliability" \in DOMAIN source_reliability.dict[sid]
    THEN source_reliability.dict[sid].reliability ELSE <<1, 2>>

\* c_i: the supplied confidence, 0.25 if none
RefConfidence(sid) ==
    IF Supplied(sid) /\ "confidence" \in DOMAIN source_reliability.dict[sid]
    THEN source_reliability.dict[sid].confidence ELSE <<1, 4>>

RefTotalWeight == SumAt([s \in SignalSourceIds |-> RefWeight(s)], SignalSourceIds)

\* C11: when the total weight is positive, consensus = sum(p_i * w_i) /
\* sum(w_i) and confidence = sum(c_i * w_i) / sum(w_i) over the distinct
\* sources, p_i the mean of the source's probabilities, w_i its reliability
\* (0.50 if none supplied), c_i its confidence (0.25 if none supplied); with
\* all reliabilities equal the consensus is the unweighted mean of the p_i.
C11_WeightedAverage ==
    (Computed /\ signals # <<>> /\ RLt(RZero, RefTotalWeight)) =>
        /\ result.normalization.totalWeight = RefTotalWeight
        /\ result.consensus =
               RDiv(SumAt([s \in SignalSourceIds |-> RMul(RefMean(s), RefWeight(s))],
                          SignalSourceIds),
                    RefTotalWeight)
        /\ result.confidence =
               RDiv(SumAt([s \in SignalSourceIds |-> RMul(RefConfidence(s), RefWeight(s))],
                          SignalSourceIds),
                    RefTotalWeight)
        /\ (\A s1 \in SignalSourceIds : \A s2 \in SignalSourceIds :
                RefWeight(s1) = RefWeight(s2))
              => result.consensus =
                     RDiv(SumAt([s \in SignalSourceIds |-> RefMean(s)], SignalSourceIds),
                          <<Cardinality(SignalSourceIds), 1>>)

\* "a" sends 0.6 and 0.8 with reliability 1, "b" sends 0.8 with reliability
\* 0.5: consensus (0.7 * 1 + 0.8 * 0.5) / 1.5 = 11/15
C11_Witness ==
    /\ Computed
    /\ Cardinality(PositionsOf(SrcA)) = 2
    /\ RefMean(SrcA) = <<7, 10>>
    /\ Cardinality(PositionsOf(SrcB)) = 1
    /\ result.normalization.totalWeight = <<3, 2>>
    /\ result.consensus = <<11, 15>>

\* signals without the one at position i
RemoveAt(sigs, i) == SubSeq(sigs, 1, i - 1) \o SubSeq(sigs, i + 1, Len(sigs))

\* position i repeats the only probability its source has submitted
RepeatsOnlyValue(i) ==
    /\ \E j \in DOMAIN signals : j # i /\ signals[j].sourceId = signals[i].sourceId
    /\ \A j \in DOMAIN signals :
           signals[j].sourceId = signals[i].sourceId
               => signals[j].probability = signals[i].probability

\* C12: a further signal of a source that repeats the only probability the
\* source has submitted changes neither consensus, confidence nor any weight
\* or normalizedWeight; of the diagnostics only the signal count changes.
C12_DuplicatesAddNoInfluence ==
    Computed =>
        \A i \in DOMAIN signals :
            RepeatsOnlyValue(i) =>
                LET once == compute_consensus(RemoveAt(signals, i), source_reliability)
                IN  /\ result.consensus = once.consensus
                    /\ result.confidence = once.confidence
                    /\ result.sourceWeights = once.sourceWeights
                    /\ result.normalization = once.normalization
                    /\ result.diagnostics.status = once.diagnostics.status
                    /\ result.diagnostics.uniqueSources = once.diagnostics.uniqueSources
                    /\ result.diagnostics.coldStartSources
                           = once.diagnostics.coldStartSources
                    /\ result.diagnostics.sources = once.diagnostics.sources + 1

\* "a" sends 0.6 twice, "b" sends 0.8 once, both with positive weight
C12_Witness ==
    /\ Computed
    /\ Len(signals) = 3
    /\ \E i \in DOMAIN signals : RepeatsOnlyValue(i) /\ signals[i].sourceId = SrcA
    /\ RefMean(SrcA) = <<3, 5>>
    /\ PositionsOf(SrcB) # {}
    /\ RefMean(SrcB) = <<4, 5>>
    /\ RLt(RZero, RefWeight(SrcA))
    /\ RLt(RZero, RefWeight(SrcB))
    /\ result.consensus # None

\* every source that sent a signal has a supplied reliability of 0
AllZeroReliability ==
    /\ signals # <<>>
    /\ \A s \in SignalSourceIds :
           /\ Supplied(s)
           /\ "reliability" \in DOMAIN source_reliability.dict[s]
           /\ source_reliability.dict[s].reliability = <<0, 1>>

\* C13: with a non-empty signal list whose sources all have reliability 0
\* the result has consensus null, confidence 0, totalWeight 0 and
\* normalizedWeight 0 for every source (no quotient by the zero total).
C13_AllZeroWeights ==
    (Computed /\ AllZeroReliability) =>
        /\ result.consensus = None
        /\ result.confidence = <<0, 1>>
        /\ result.normalization.totalWeight = <<0, 1>>
        /\ Len(result.sourceWeights) = Cardinality(SignalSourceIds)
        /\ \A i \in DOMAIN result.sourceWeights :
               /\ result.sourceWeights[i].weight = <<0, 1>>
               /\ result.sourceWeights[i].normalizedWeight = <<0, 1>>

\* two sources, both with reliability 0
C13_Witness ==
    /\ Computed
    /\ AllZeroReliability
    /\ Cardinality(SignalSourceIds) = 2
    /\ result.consensus = None

\* C14: for an empty signal list, whatever reliability map is supplied, the
\* result has consensus null, confidence 0, no sourceWeights, totalWeight 0,
\* sourceCount 0 and diagnostics.status "no_signals".
C14_NoSignals ==
    (Computed /\ signals = <<>>) =>
        /\ result.consensus = None
        /\ result.confidence = <<0, 1>>
        /\ result.sourceWeights = <<>>
        /\ result.normalization.totalWeight = <<0, 1>>
        /\ result.normalization.sourceCount = 0
        /\ result.diagnostics.status = "no_signals"

\* no signals, with records supplied for all three sources
C14_Witness ==
    /\ Computed
    /\ signals = <<>>
    /\ ~source_reliability.is_none
    /\ DOMAIN source_reliability.dict = ConsensusSources
    /\ result.diagnostics.status = "no_signals"

\* C15 as claimed: every result has diagnostics with status, sources,
\* uniqueSources and coldStartSources, status being "no_signals" exactly for
\* an empty signal list and "computed" otherwise.
C15_Original ==
    Computed =>
        /\ {"status", "sources", "uniqueSources", "coldStartSources"}
               \subseteq DOMAIN result.diagnostics
        /\ result.diagnostics.status = "no_signals" <=> signals = <<>>
        /\ result.diagnostics.status = "computed" <=> signals # <<>>

\* the sum of the normalizedWeight entries of the result
NormalizedSum ==
    SumAt([i \in DOMAIN result.sourceWeights |->
               result.sourceWeights[i].normalizedWeight],
          DOMAIN result.sourceWeights)

\* C16: with probabilities, reliabilities and confidences in [0, 1] the
\* consensus is null or a number in [0, 1] between the smallest and the
\* largest per-source mean probability, confidence is in [0, 1], and when
\* totalWeight > 0 every normalizedWeight is in [0, 1] and they sum to 1.
C16_ResultRanges ==
    Computed =>
        /\ \/ result.consensus = None
           \/ /\ InUnit(result.consensus)
              /\ \E lo \in SignalSourceIds : RLe(RefMean(lo), result.consensus)
              /\ \E hi \in SignalSourceIds : RLe(result.consensus, RefMean(hi))
        /\ InUnit(result.confidence)
        /\ RLt(RZero, result.normalization.totalWeight) =>
               /\ \A i \in DOMAIN result.sourceWeights :
                      InUnit(result.sourceWeights[i].normalizedWeight)
               /\ NormalizedSum = <<1, 1>>

\* three sources with weights 0, 0.5 and 1, their means not all equal: the
\* consensus lies strictly inside the range of the means
C16_Witness ==
    /\ Computed
    /\ Cardinality(SignalSourceIds) = 3
    /\ result.normalization.totalWeight = <<3, 2>>
    /\ \E i \in DOMAIN result.sourceWeights :
           result.sourceWeights[i].normalizedWeight = <<1, 3>>
    /\ \E i \in DOMAIN result.sourceWeights :
           result.sourceWeights[i].normalizedWeight = <<0, 1>>
    /\ result.consensus # None
    /\ RLt(<<3, 5>>, result.consensus)
    /\ RLt(result.consensus, <<4, 5>>)

\* the sources that sent a signal and have no key in source_reliability
ColdIds == {s \in SignalSourceIds : ~Supplied(s)}

\* source_reliability with an explicit cold-start record for each of them
ColdFilled ==
    LET given == IF source_reliability.is_none THEN EmptyDict
                 ELSE source_reliability.dict
    IN  DictArg([s \in DOMAIN given \cup ColdIds |->
                    IF s \in ColdIds
                    THEN [reliability |-> <<1, 2>>, confidence |-> <<1, 4>>]
                    ELSE given[s]])

---------------------------------------------------------------------------
(* Properties of apply_reliability_decay *)

DecayReturned == pure_call.fn = "apply_reliability_decay" /\ pure_ret # None

\* v halved k times
RECURSIVE HalvedTimes(_, _)
HalvedTimes(v, k) == IF k <= 0 THEN v ELSE HalvedTimes(RMul(v, <<1, 2>>), k - 1)

\* C19 as claimed: apply_reliability_decay(x, t, h, f) is >= f and <= 1 for
\* every x, every t >= 0 (t = 0 included) and every floor f.
C19_Original ==
    (DecayReturned /\ pure_call.elapsed_days >= 0) =>
        /\ RLe(pure_call.min_reliability, pure_ret)
        /\ RLe(pure_ret, <<1, 1>>)

---------------------------------------------------------------------------
(* Properties of days_since_update and decay_reliability_if_needed *)

ElapsedDone == pure_call.fn \in {"days_since_update", "decay_reliability_if_needed"}
               /\ pure_ret.status # "pending"

\* the now of the call as a day: the argument, or the clock when left out
CallNowDay == IF pure_call.now.kind = "none" THEN now ELSE pure_call.now.day

\* the cases the claim gives 0 to: None, "", unparseable, later than now
ZeroCase ==
    \/ pure_call.last_updated_at.kind \in {"none", "empty", "bad"}
    \/ pure_call.last_updated_at.day > CallNowDay

\* C21 as claimed: days_since_update never fails and never returns a negative
\* number; it returns 0 for a None, empty or unparseable timestamp and for a
\* timestamp later than now, otherwise now - timestamp in days with a
\* timestamp without time zone read as UTC; decay_reliability_if_needed
\* returns (reliability, False) in each of the zero cases.
C21_Original ==
    /\ (ElapsedDone /\ pure_call.fn = "days_since_update") =>
           /\ pure_ret.status = "returned"
           /\ pure_ret.value >= 0
           /\ pure_ret.value = (IF ZeroCase THEN 0
                                ELSE CallNowDay - pure_call.last_updated_at.day)
    /\ (ElapsedDone /\ pure_call.fn = "decay_reliability_if_needed" /\ ZeroCase) =>
           /\ pure_ret.status = "returned"
           /\ pure_ret.value = <<pure_call.current_reliability, FALSE>>

\* what holds of the code: the same, for every call whose now is left out or
\* carries a time zone
C21_AwareNow ==
    (ElapsedDone /\ (pure_call.now.kind = "none" \/ pure_call.now.tz = "utc")) =>
        /\ pure_ret.status = "returned"
        /\ pure_call.fn = "days_since_update" =>
               /\ pure_ret.value >= 0
               /\ pure_ret.value = (IF ZeroCase THEN 0
                                    ELSE CallNowDay - pure_call.last_updated_at.day)
        /\ (pure_call.fn = "decay_reliability_if_needed" /\ ZeroCase) =>
               pure_ret.value = <<pure_call.current_reliability, FALSE>>

---------------------------------------------------------------------------
(* Properties of validate_input_payload *)

Validated == pure_call.fn = "validate_input_payload" /\ pure_ret.status # "pending"

Accepted == Validated /\ pure_ret.status = "returned"

NonBlankString(d, key) ==
    /\ key \in DOMAIN d
    /\ d[key].type = "str"
    /\ \E i \in 1..Len(d[key].chars) : ~IsSpace(d[key].chars[i])

ProbabilityInUnit(d) ==
    /\ "probability" \in DOMAIN d
    /\ d["probability"].type \in {"int", "float", "bool"}
    /\ d["probability"].num # NaN
    /\ RLe(RZero, d["probability"].num)
    /\ RLe(d["probability"].num, ROne)

HeadWellFormed(pl) ==
    /\ "schemaVersion" \in DOMAIN pl
    /\ pl["schemaVersion"] = PyText(SCHEMA_VERSION)
    /\ NonBlankString(pl, "marketId")
    /\ "signals" \in DOMAIN pl
    /\ pl["signals"].type = "list"

SignalWellFormed(sg) ==
    /\ sg.type = "dict"
    /\ NonBlankString(sg.items, "sourceId")
    /\ ProbabilityInUnit(sg.items)

\* C22 as claimed: a payload is accepted exactly when schemaVersion is
\* "1.0.0", marketId is a non-blank string, signals is a list and every
\* signal has a non-blank string sourceId and a numeric probability in
\* [0, 1]; a rejection for a signal names the first ill-formed signal's
\* index and the violated field, sourceId before probability.
C22_Original ==
    Validated =>
        LET pl == pure_call.payload
            sigs == pl["signals"].elems
            illFormed == {i \in 1..Len(sigs) : ~SignalWellFormed(sigs[i])}
        IN  /\ (pure_ret.status = "returned") <=>
                   (HeadWellFormed(pl) /\ illFormed = {})
            /\ (HeadWellFormed(pl) /\ illFormed # {}) =>
                   LET first == CHOOSE i \in illFormed : \A j \in illFormed : i <= j
                   IN  /\ pure_ret.status = "raised"
                       /\ pure_ret.error.type = "ValidationError"
                       /\ pure_ret.error.idx = first - 1
                       /\ sigs[first].type = "dict" =>
                              pure_ret.error.key =
                                  (IF NonBlankString(sigs[first].items, "sourceId")
                                   THEN "probability" ELSE "sourceId")

\* C23 as claimed: every accepted payload has at most 1000 signals and
\* every sourceId at most 256 characters long.
C23_Original ==
    Accepted =>
        LET sigs == pure_call.payload["signals"].elems
        IN  /\ Len(sigs) <= MAX_SIGNALS_PER_REQUEST
            /\ \A i \in 1..Len(sigs) :
                   Len(sigs[i].items["sourceId"].chars) <= MAX_SOURCE_ID_LENGTH

---------------------------------------------------------------------------
(* Properties of list_sources *)

\* the rows a list_sources call has to return
Matching ==
    IF call.market_id = None THEN rows
    ELSE {r \in rows : r.market_id = call.market_id}

\* C24: list_sources() returns every stored row exactly once in ascending
\* (source_id, market_id) order; list_sources(m) returns exactly the rows of
\* market m in ascending source_id order; both return the empty list when no
\* row matches. The list is fixed by the rows alone, whatever order they
\* were written in.
C24_ListSources ==
    call.op = "list" =>
        /\ Len(listed) = Cardinality(Matching)
        /\ {listed[i] : i \in 1..Len(listed)} = Matching
        /\ \A i, j \in 1..Len(listed) :
               i < j => IF call.market_id = None
                        THEN RowLt(listed[i], listed[j])
                        ELSE StrLt(listed[i].source_id, listed[j].source_id)
        /\ Matching = {} => listed = <<>>

\* an unfiltered list of three rows or more in which a row written on a
\* later day comes before a row written earlier
C24_Witness ==
    /\ call.op = "list"
    /\ call.market_id = None
    /\ Len(listed) >= 3
    /\ \E i, j \in 1..Len(listed) :
           /\ i < j
           /\ listed[i].updated_at.day > listed[j].updated_at.day

---------------------------------------------------------------------------
(* Properties of update_reliability on two connections *)

\* the tables left by running the calls one after the other, each
\* connection's calls in its own order, the connections merged in any way
RECURSIVE SerialTables(_, _, _)
SerialTables(rws, o1, o2) ==
    IF o1 = <<>> /\ o2 = <<>> THEN {rws}
    ELSE (IF o1 = <<>> THEN {}
          ELSE SerialTables(upsert(rws, updated_record(rws, now, ConnSource,
                                                       ConnMarket, Head(o1))),
                            Tail(o1), o2))
         \cup
         (IF o2 = <<>> THEN {}
          ELSE SerialTables(upsert(rws, updated_record(rws, now, ConnSource,
                                                       ConnMarket, Head(o2))),
                            o1, Tail(o2)))

Quiescent == \A c \in Connections : conns[c].pc = "idle"

\* C25 as claimed: with every statement serialized, the row left by the
\* update_reliability calls of two connections, interleaved in any way, is
\* the row left by running the same calls one after the other in some order.
C25_Original ==
    Quiescent => rows \in SerialTables({}, conns[1].outcomes, conns[2].outcomes)

\* what holds of the code: the same, as long as no call wrote values computed
\* from a row that another connection had replaced in the meantime
C25_UnlessStale ==
    (Quiescent /\ \A c \in Connections : ~conns[c].stale) =>
        rows \in SerialTables({}, conns[1].outcomes, conns[2].outcomes)

---------------------------------------------------------------------------
(* Properties of reads with apply_decay=True *)

\* the days the wall clock can show
ClockDays == {k * DECAY_HALF_LIFE_DAYS : k \in 0..MaxHalfLives}

\* the reliability a read with apply_decay=True of row r returns on day d
DecayedOn(r, d) == get_reliability(rows, d, r.source_id, r.market_id, TRUE).reliability

\* C26 as claimed: a read with apply_decay=True never returns a reliability
\* greater than the stored one, and for every row the returned value is
\* non-increasing as the time since updated_at grows.
C26_Original ==
    /\ (OnStoredKey("get") /\ call.apply_decay)
          => RLe(ret.reliability,
                 RowOf(before, call.source_id, call.market_id).reliability)
    /\ \A r \in rows : \A d1, d2 \in ClockDays :
           (r.updated_at.day <= d1 /\ d1 <= d2)
               => RLe(DecayedOn(r, d2), DecayedOn(r, d1))

\* C26 amended: a read with apply_decay=True returns at most the larger of
\* the stored reliability and the floor 0.10.  Of a row stored at or above
\* the floor it returns a value between the floor and the stored one,
\* non-increasing as the time since updated_at grows and strictly smaller
\* once time has passed for a row stored above the floor.  Of a row stored
\* below the floor it returns the stored value while no time has passed and
\* the floor, a greater value, afterwards.
C26_DecayedRead ==
    /\ (OnStoredKey("get") /\ call.apply_decay) =>
           LET stored == RowOf(before, call.source_id, call.market_id).reliability
           IN  /\ RLe(ret.reliability, RMax(stored, <<1, 10>>))
               /\ RLe(<<1, 10>>, stored)
                      => RLe(<<1, 10>>, ret.reliability) /\ RLe(ret.reliability, stored)
               /\ (RLt(<<1, 10>>, stored) /\ CallElapsed > 0)
                      => RLt(ret.reliability, stored)
               /\ RLt(stored, <<1, 10>>)
                      => ret.reliability = (IF CallElapsed > 0 THEN <<1, 10>> ELSE stored)
    /\ \A r \in rows : \A d1, d2 \in ClockDays :
           (r.updated_at.day <= d1 /\ d1 <= d2 /\ RLe(<<1, 10>>, r.reliability))
               => /\ RLe(DecayedOn(r, d2), DecayedOn(r, d1))
                  /\ (d1 < d2 /\ RLt(<<1, 10>>, r.reliability))
                         => RLt(DecayedOn(r, d2), DecayedOn(r, d1))

\* a decayed read of a row stored above the floor, one half-life after its
\* update: strictly between the floor and the stored value
C26_Witness ==
    /\ OnStoredKey("get")
    /\ call.apply_decay
    /\ CallElapsed = DECAY_HALF_LIFE_DAYS
    /\ RLt(<<1, 10>>, ret.reliability)
    /\ RLt(ret.reliability, RowOf(rows, call.source_id, call.market_id).reliability)

====
